---- MODULE Spec2Model ----
(***************************************************************************)
(* Halifax Transit on-time-performance tracker: the feed-to-fact           *)
(* extraction (src/src/processing/trip_updates.py), the on-time            *)
(* classification (src/src/config.py), the fact-store upsert               *)
(* (src/src/db/queries.py), the daily/hourly aggregation and its backfill  *)
(* (src/src/aggregation/daily_summary.py) and the feed poller              *)
(* (src/src/gtfs/realtime_poller.py).                                      *)
(*                                                                         *)
(* Encoding of Python values:                                              *)
(*   - an optional value (None, or a protobuf field that is absent) is a   *)
(*     sequence of length 0 or 1: None == <<>>, Some(v) == <<v>>;          *)
(*   - a str that the code parses is a sequence of one-character strings;  *)
(*   - a datetime.date is a record [year, month, day];                     *)
(*   - datetime.now() is an integer number of hours since a Monday 00:00   *)
(*     (only .hour and .weekday() of it are read);                         *)
(*   - a FLOAT statistic is the exact fraction [num, den] that the SQL     *)
(*     expression denotes (float rounding is not modelled).                *)
(***************************************************************************)
EXTENDS Integers, Sequences, FiniteSets, TLC

VARIABLES
    delay_arg,      \* is_on_time: the argument of the call under check
    on_time_ret,    \* is_on_time: <<result>> once the call has returned
    feed,           \* the decoded FeedMessage handed to process_trip_updates
    observed_at,    \* datetime.now() read by process_trip_updates
    events,         \* the list process_trip_updates returned
    extracted,      \* TRUE once process_trip_updates has returned
    facts,          \* table stop_delay_events: a set of rows
    daily,          \* table daily_route_summary: a set of rows
    hourly,         \* table hourly_route_summary: a set of rows
    agg,            \* the run_daily_aggregation call in progress, if any
    latest,         \* history: natural key -> the observation upserted last
    fresh,          \* history: the dates aggregated since the last fact write
    ops,            \* history: the number of calls made so far
    bf,             \* the backfill_aggregations call in progress, if any
    poll_log,       \* table poll_log: a set of rows
    poll_log_seq,   \* sequence poll_log_seq: the value nextval yields next
    clock,          \* the wall clock: [second, half], half the later half of the second
    archive_dir,    \* GTFSRealtimePoller.archive_dir: None, or Some(directory)
    archive_files,  \* the files under archive_dir: file name -> content
    poller,         \* the fetch_trip_updates call in progress or last made
    archived,       \* history: the payloads _archive_feed has written, in order
    connections     \* connection -> None, or Some(the number of close() calls on it)

callVars == <<delay_arg, on_time_ret>>

extractVars == <<feed, observed_at, events, extracted>>

storeVars == <<facts, daily, hourly, agg, latest, fresh, ops>>

jobVars == <<bf, poll_log, poll_log_seq>>

pollerVars == <<clock, archive_dir, archive_files, poller, archived>>

vars == <<delay_arg, on_time_ret, feed, observed_at, events, extracted,
          facts, daily, hourly, agg, latest, fresh, ops,
          bf, poll_log, poll_log_seq,
          clock, archive_dir, archive_files, poller, archived,
         connections>>

----------------------------------------------------------------------------
(* Optional values *)

None == <<>>

Some(v) == <<v>>

\* Python truthiness of an optional str: None and "" are falsy
Truthy(opt) == opt # None /\ opt[1] # ""

----------------------------------------------------------------------------
(* src/src/config.py *)

EARLY_THRESHOLD == -60

LATE_THRESHOLD == 300

MAX_FEED_AGE_SECONDS == 300

\* the mutant of is_on_time: the late bound taken strictly
is_on_time_strict(delay_seconds) ==
    IF delay_seconds = None
    THEN None
    ELSE Some(EARLY_THRESHOLD <= delay_seconds[1] /\ delay_seconds[1] < LATE_THRESHOLD)

is_on_time(delay_seconds) ==
    IF delay_seconds = None
    THEN None
    ELSE Some(EARLY_THRESHOLD <= delay_seconds[1] /\ delay_seconds[1] <= LATE_THRESHOLD)

----------------------------------------------------------------------------
(* datetime.strptime(date_str, "%Y%m%d").date(), as CPython's _strptime    *)
(* computes it: the format compiles to the regular expression              *)
(*   (?P<Y>\d\d\d\d)(?P<m>1[0-2]|0[1-9]|[1-9])                             *)
(*   (?P<d>3[01]|[12]\d|0[1-9]|[1-9]| [1-9])                               *)
(* which is matched at the start of the string, alternatives in order and  *)
(* with backtracking; a failed match, text left after the match, or a      *)
(* year/month/day that is no calendar date raises ValueError.              *)

Digits == <<"0", "1", "2", "3", "4", "5", "6", "7", "8", "9">>

IsDigit(c) == \E i \in 1..10 : Digits[i] = c

DigitVal(c) == (CHOOSE i \in 1..10 : Digits[i] = c) - 1

CharAt(s, i) == IF i >= 1 /\ i <= Len(s) THEN s[i] ELSE "$"

\* the lengths, in the order the regex tries them, of the month
\* alternatives 1[0-2] | 0[1-9] | [1-9] that match s at position p
MonthAlts(s, p) ==
    (IF CharAt(s, p) = "1" /\ CharAt(s, p + 1) \in {"0", "1", "2"} THEN <<2>> ELSE <<>>)
    \o (IF CharAt(s, p) = "0" /\ IsDigit(CharAt(s, p + 1)) /\ CharAt(s, p + 1) # "0"
        THEN <<2>> ELSE <<>>)
    \o (IF IsDigit(CharAt(s, p)) /\ CharAt(s, p) # "0" THEN <<1>> ELSE <<>>)

\* the same for the day alternatives 3[01] | [12]\d | 0[1-9] | [1-9] | " "[1-9]
DayAlts(s, p) ==
    (IF CharAt(s, p) = "3" /\ CharAt(s, p + 1) \in {"0", "1"} THEN <<2>> ELSE <<>>)
    \o (IF CharAt(s, p) \in {"1", "2"} /\ IsDigit(CharAt(s, p + 1)) THEN <<2>> ELSE <<>>)
    \o (IF CharAt(s, p) = "0" /\ IsDigit(CharAt(s, p + 1)) /\ CharAt(s, p + 1) # "0"
        THEN <<2>> ELSE <<>>)
    \o (IF IsDigit(CharAt(s, p)) /\ CharAt(s, p) # "0" THEN <<1>> ELSE <<>>)
    \o (IF CharAt(s, p) = " " /\ IsDigit(CharAt(s, p + 1)) /\ CharAt(s, p + 1) # "0"
        THEN <<2>> ELSE <<>>)

\* int() of the digits s[p..p+n-1], a leading blank skipped
IntOf(s, p, n) ==
    IF n = 1 THEN DigitVal(s[p])
    ELSE IF n = 2 THEN (IF s[p] = " " THEN 0 ELSE 10 * DigitVal(s[p])) + DigitVal(s[p + 1])
    ELSE 1000 * DigitVal(s[p]) + 100 * DigitVal(s[p + 1])
         + 10 * DigitVal(s[p + 2]) + DigitVal(s[p + 3])

\* the regex match: None, or Some([ml, dl]) the lengths of the month and
\* day groups of the first alternative pair that matches
StrptimeMatch(s) ==
    IF ~(\A i \in 1..4 : IsDigit(CharAt(s, i)))
    THEN None
    ELSE LET ms == MonthAlts(s, 5)
             ok == {i \in 1..Len(ms) : DayAlts(s, 5 + ms[i]) # <<>>}
         IN  IF ok = {}
             THEN None
             ELSE LET i == CHOOSE k \in ok : \A j \in ok : k <= j
                  IN  Some([ml |-> ms[i], dl |-> DayAlts(s, 5 + ms[i])[1]])

IsLeap(y) == (y % 4 = 0 /\ y % 100 # 0) \/ y % 400 = 0

DaysInMonth(y, m) ==
    IF m = 2 THEN (IF IsLeap(y) THEN 29 ELSE 28)
    ELSE IF m \in {4, 6, 9, 11} THEN 30 ELSE 31

\* parse_service_date: Some(date), or None when strptime raises ValueError
parse_service_date(date_str) ==
    LET mt == StrptimeMatch(date_str)
    IN  IF mt = None THEN None
        ELSE IF 4 + mt[1].ml + mt[1].dl # Len(date_str) THEN None
        ELSE LET y == IntOf(date_str, 1, 4)
                 m == IntOf(date_str, 5, mt[1].ml)
                 d == IntOf(date_str, 5 + mt[1].ml, mt[1].dl)
             IN  IF y < 1 \/ d > DaysInMonth(y, m)
                 THEN None
                 ELSE Some([year |-> y, month |-> m, day |-> d])

----------------------------------------------------------------------------
(* src/src/processing/trip_updates.py *)

\* a protobuf string field read without HasField: "" when absent
FieldOr(opt, default) == IF opt = None THEN default ELSE opt[1]

\* vehicle_id: the id if the descriptor has one, else the label, else None
VehicleId(trip_update) ==
    IF trip_update.vehicle = None
    THEN None
    ELSE IF trip_update.vehicle[1].id # None THEN trip_update.vehicle[1].id
    ELSE IF trip_update.vehicle[1].label # None THEN trip_update.vehicle[1].label
    ELSE None

\* arrival_delay / departure_delay of a StopTimeEvent sub-message
EventDelay(ste) == IF ste = None THEN None ELSE ste[1].delay

\* predicted_arrival / predicted_departure (the epoch moment, kept as is)
EventTime(ste) == IF ste = None THEN None ELSE ste[1].time

\* a mutant of DelayForOtp: the departure delay is preferred
DelayForOtp_departure_first(arrival_delay, departure_delay) ==
    IF departure_delay # None THEN departure_delay ELSE arrival_delay

\* delay_for_otp = arrival_delay if arrival_delay is not None else departure_delay
DelayForOtp(arrival_delay, departure_delay) ==
    IF arrival_delay # None THEN arrival_delay ELSE departure_delay

\* a mutant of StuKept: a stop sequence of 0 is taken for a missing one
StuKept_falsy_sequence(stu) ==
    Truthy(stu.stop_id) /\ stu.stop_sequence # None /\ stu.stop_sequence[1] # 0

\* the per-stop-update gate: not (not stop_id or stop_sequence is None)
StuKept(stu) == Truthy(stu.stop_id) /\ stu.stop_sequence # None

\* the service date of a trip descriptor: None when start_date is absent or
\* parse_service_date raises ValueError
ServiceDate(trip) ==
    IF trip.start_date = None THEN None ELSE parse_service_date(trip.start_date[1])

\* a mutant of TripKept: the route id is tested for None, not for truth
TripKept_empty_route(trip) == ServiceDate(trip) # None /\ trip.route_id # None

\* the trip-level gate: a service date and a truthy route id
TripKept(trip) == ServiceDate(trip) # None /\ Truthy(trip.route_id)

\* observed_at.hour
HourOf(dt) == dt % 24

\* a mutant of weekday: the week begins on Sunday
weekday_from_sunday(dt) == ((dt \div 24) + 1) % 7

\* observed_at.weekday(): 0 is Monday
weekday(dt) == (dt \div 24) % 7

\* the StopDelayEvent built for one stop-time update
MakeEvent(trip_update, stu, now, feed_timestamp) ==
    [observed_at         |-> now,
     trip_id             |-> FieldOr(trip_update.trip.trip_id, ""),
     stop_id             |-> stu.stop_id[1],
     stop_sequence       |-> stu.stop_sequence[1],
     service_date        |-> ServiceDate(trip_update.trip)[1],
     route_id            |-> trip_update.trip.route_id[1],
     direction_id        |-> trip_update.trip.direction_id,
     vehicle_id          |-> VehicleId(trip_update),
     arrival_delay       |-> EventDelay(stu.arrival),
     departure_delay     |-> EventDelay(stu.departure),
     predicted_arrival   |-> EventTime(stu.arrival),
     predicted_departure |-> EventTime(stu.departure),
     feed_timestamp      |-> feed_timestamp,
     hour_of_day         |-> HourOf(now),
     day_of_week         |-> weekday(now),
     is_on_time          |-> is_on_time(DelayForOtp(EventDelay(stu.arrival),
                                                    EventDelay(stu.departure)))]

\* the inner loop: the events of the stop-time updates stus[i..], in order
RECURSIVE StuEvents(_, _, _, _)
StuEvents(trip_update, i, now, feed_timestamp) ==
    IF i > Len(trip_update.stop_time_update)
    THEN <<>>
    ELSE (IF StuKept(trip_update.stop_time_update[i])
          THEN <<MakeEvent(trip_update, trip_update.stop_time_update[i], now, feed_timestamp)>>
          ELSE <<>>)
         \o StuEvents(trip_update, i + 1, now, feed_timestamp)

\* one iteration of the outer loop
EntityEvents(entity, now, feed_timestamp) ==
    IF entity.trip_update = None
    THEN <<>>
    ELSE IF ~TripKept(entity.trip_update[1].trip)
    THEN <<>>
    ELSE StuEvents(entity.trip_update[1], 1, now, feed_timestamp)

RECURSIVE FeedEvents(_, _, _, _)
FeedEvents(entities, i, now, feed_timestamp) ==
    IF i > Len(entities)
    THEN <<>>
    ELSE EntityEvents(entities[i], now, feed_timestamp)
         \o FeedEvents(entities, i + 1, now, feed_timestamp)

\* process_trip_updates(feed), with datetime.now() = now
process_trip_updates(f, now) ==
    FeedEvents(f.entity, 1, now, FieldOr(f.header_timestamp, 0))

----------------------------------------------------------------------------
(* src/src/db/queries.py, src/src/db/schema.py: the fact store *)

\* PRIMARY KEY (trip_id, stop_id, stop_sequence, service_date)
Key(row) == <<row.trip_id, row.stop_id, row.stop_sequence, row.service_date>>

\* a mutant of UpsertRow: a plain INSERT, the row of the same key is kept
UpsertRow_keep_old(tbl, e) == tbl \cup {e}

\* INSERT OR REPLACE INTO stop_delay_events of one parameter tuple
UpsertRow(tbl, e) == {r \in tbl : Key(r) # Key(e)} \cup {e}

\* executemany: the statement is run for each tuple of values, in order
RECURSIVE ExecuteMany(_, _, _)
ExecuteMany(tbl, values, i) ==
    IF i > Len(values) THEN tbl
    ELSE ExecuteMany(UpsertRow(tbl, values[i]), values, i + 1)

\* insert_stop_delay_events(conn, events): the table afterwards
insert_stop_delay_events(tbl, evs) ==
    IF evs = <<>> THEN tbl ELSE ExecuteMany(tbl, evs, 1)

----------------------------------------------------------------------------
(* src/src/aggregation/daily_summary.py: the SQL statements *)

\* SUM(val) over the rows of a group, val a function of the row
RECURSIVE SumOver(_, _)
SumOver(g, val) ==
    IF g = {} THEN 0
    ELSE LET f == CHOOSE x \in g : TRUE
         IN  val[f] + SumOver(g \ {f}, val)

\* SUM(CASE WHEN c THEN 1 ELSE 0 END), c the rows of the group that satisfy
\* the condition
SumCase(g, c) == SumOver(g, [f \in g |-> IF f \in c THEN 1 ELSE 0])

\* SUM(arrival_delay)
SumDelay(g) == SumOver(g, [f \in g |-> f.arrival_delay[1]])

\* the arrival delays of a group in ascending order (ORDER BY arrival_delay)
RECURSIVE SortedDelays(_)
SortedDelays(g) ==
    IF g = {} THEN <<>>
    ELSE LET f == CHOOSE x \in g : \A y \in g : x.arrival_delay[1] <= y.arrival_delay[1]
         IN  <<f.arrival_delay[1]>> \o SortedDelays(g \ {f})

\* PERCENTILE_CONT(pn/pd) of a sorted non-empty list, as the fraction over
\* pd: the linear interpolation at the position (pn/pd) * (n - 1)
PercentileCont(sorted, pn, pd) ==
    LET pos == pn * (Len(sorted) - 1)
        lo  == pos \div pd
        rem == pos % pd
    IN  [num |-> pd * sorted[lo + 1]
                 + (IF rem = 0 THEN 0 ELSE rem * (sorted[lo + 2] - sorted[lo + 1])),
         den |-> pd]

\* CASE WHEN is_on_time: a NULL is_on_time is not true
IsOnTimeRow(f) == f.is_on_time = Some(TRUE)

\* a mutant of IsEarlyRow: the early threshold itself counts as early
IsEarlyRow_inclusive(f) == f.arrival_delay[1] <= EARLY_THRESHOLD

\* CASE WHEN arrival_delay < EARLY_THRESHOLD
IsEarlyRow(f) == f.arrival_delay[1] < EARLY_THRESHOLD

\* a mutant of IsLateRow: the late threshold itself counts as late
IsLateRow_inclusive(f) == f.arrival_delay[1] >= LATE_THRESHOLD

\* CASE WHEN arrival_delay > LATE_THRESHOLD
IsLateRow(f) == f.arrival_delay[1] > LATE_THRESHOLD

\* FROM stop_delay_events WHERE service_date = ? AND arrival_delay IS NOT NULL
Population(factsTbl, d) ==
    {f \in factsTbl : f.service_date = d /\ f.arrival_delay # None}

\* a mutant of DailyRow: COUNT(DISTINCT trip_id) for COUNT(*)
DailyRow_distinct_trips(d, route, g) ==
    [service_date |-> d, route_id |-> route,
     total_observations |-> Cardinality({f.trip_id : f \in g}),
     on_time_count |-> SumCase(g, {f \in g : IsOnTimeRow(f)}),
     early_count |-> SumCase(g, {f \in g : IsEarlyRow(f)}),
     late_count |-> SumCase(g, {f \in g : IsLateRow(f)}),
     avg_delay_seconds |-> [num |-> SumDelay(g), den |-> Cardinality(g)],
     median_delay_seconds |-> PercentileCont(SortedDelays(g), 1, 2),
     p95_delay_seconds |-> PercentileCont(SortedDelays(g), 19, 20),
     max_delay_seconds |-> SortedDelays(g)[Len(SortedDelays(g))],
     min_delay_seconds |-> SortedDelays(g)[1],
     on_time_percentage |-> [num |-> SumCase(g, {f \in g : IsOnTimeRow(f)}) * 100,
                             den |-> Cardinality(g)],
     unique_trips |-> Cardinality({f.trip_id : f \in g}),
     unique_vehicles |-> Cardinality({f.vehicle_id : f \in {x \in g : x.vehicle_id # None}}),
     unique_stops |-> Cardinality({f.stop_id : f \in g})]

\* the SELECT list of the daily statement for one group g (GROUP BY
\* service_date, route_id)
DailyRow(d, route, g) ==
    [service_date |-> d, route_id |-> route,
     total_observations |-> Cardinality(g),
     on_time_count |-> SumCase(g, {f \in g : IsOnTimeRow(f)}),
     early_count |-> SumCase(g, {f \in g : IsEarlyRow(f)}),
     late_count |-> SumCase(g, {f \in g : IsLateRow(f)}),
     avg_delay_seconds |-> [num |-> SumDelay(g), den |-> Cardinality(g)],
     median_delay_seconds |-> PercentileCont(SortedDelays(g), 1, 2),
     p95_delay_seconds |-> PercentileCont(SortedDelays(g), 19, 20),
     max_delay_seconds |-> SortedDelays(g)[Len(SortedDelays(g))],
     min_delay_seconds |-> SortedDelays(g)[1],
     on_time_percentage |-> [num |-> SumCase(g, {f \in g : IsOnTimeRow(f)}) * 100,
                             den |-> Cardinality(g)],
     unique_trips |-> Cardinality({f.trip_id : f \in g}),
     unique_vehicles |-> Cardinality({f.vehicle_id : f \in {x \in g : x.vehicle_id # None}}),
     unique_stops |-> Cardinality({f.stop_id : f \in g})]

\* the rows the daily SELECT yields
DailySelect(factsTbl, d) ==
    {DailyRow(d, route, {f \in Population(factsTbl, d) : f.route_id = route}) :
        route \in {f.route_id : f \in Population(factsTbl, d)}}

\* a mutant of HourlyRow: every row of the group is counted as on time
HourlyRow_all_on_time(d, route, hour, g) ==
    [service_date |-> d, route_id |-> route, hour_of_day |-> hour,
     total_observations |-> Cardinality(g),
     on_time_count |-> Cardinality(g),
     avg_delay_seconds |-> [num |-> SumDelay(g), den |-> Cardinality(g)],
     on_time_percentage |-> [num |-> Cardinality(g) * 100,
                             den |-> Cardinality(g)]]

\* the SELECT list of the hourly statement for one group g (GROUP BY
\* service_date, route_id, hour_of_day)
HourlyRow(d, route, hour, g) ==
    [service_date |-> d, route_id |-> route, hour_of_day |-> hour,
     total_observations |-> Cardinality(g),
     on_time_count |-> SumCase(g, {f \in g : IsOnTimeRow(f)}),
     avg_delay_seconds |-> [num |-> SumDelay(g), den |-> Cardinality(g)],
     on_time_percentage |-> [num |-> SumCase(g, {f \in g : IsOnTimeRow(f)}) * 100,
                             den |-> Cardinality(g)]]

\* a mutant of HourlySelect: the rows of a route are not split by hour
HourlySelect_by_route(factsTbl, d) ==
    {HourlyRow(d, rh[1], rh[2], {f \in Population(factsTbl, d) : f.route_id = rh[1]}) :
        rh \in {<<f.route_id, f.hour_of_day>> : f \in Population(factsTbl, d)}}

\* the rows the hourly SELECT yields
HourlySelect(factsTbl, d) ==
    {HourlyRow(d, rh[1], rh[2],
               {f \in Population(factsTbl, d) : f.route_id = rh[1] /\ f.hour_of_day = rh[2]}) :
        rh \in {<<f.route_id, f.hour_of_day>> : f \in Population(factsTbl, d)}}

\* a mutant of DeleteForDate: the DELETE is left out
DeleteForDate_nothing(tbl, d) == tbl

\* a mutant of DeleteForDate: the WHERE clause is missing
DeleteForDate_all(tbl, d) == {}

\* DELETE FROM <summary table> WHERE service_date = ?
DeleteForDate(tbl, d) == {r \in tbl : r.service_date # d}

\* PRIMARY KEY (service_date, route_id)
DailyKey(r) == <<r.service_date, r.route_id>>

\* PRIMARY KEY (service_date, route_id, hour_of_day)
HourlyKey(r) == <<r.service_date, r.route_id, r.hour_of_day>>

\* a plain INSERT of rows raises a constraint error, and inserts nothing,
\* when the table already holds a row of the same primary key
DailyInsertRaises(tbl, rows) == \E r \in rows, t \in tbl : DailyKey(r) = DailyKey(t)

HourlyInsertRaises(tbl, rows) == \E r \in rows, t \in tbl : HourlyKey(r) = HourlyKey(t)

\* SELECT COUNT(*) FROM <summary table> WHERE service_date = ?
CountForDate(tbl, d) == Cardinality({r \in tbl : r.service_date = d})

----------------------------------------------------------------------------
(* The feeds the extractor is run on.  A feed is a sequence of at most      *)
(* MaxEntities entities; a trip update has at most MaxStus stop-time        *)
(* updates.  In each sequence one element, at any position, ranges over    *)
(* all the cases, and its siblings are all good or all bad.                 *)

MaxEntities == 2

MaxStus == 2

MaxMargin == 3

\* the hours since Monday 00:00 at which a poll may read the clock
NowChoices == {8, 41}

StopTimeEvent(delay, time) == Some([delay |-> delay, time |-> time])

StopTimeUpdate(stop_id, stop_sequence, arrival, departure) ==
    [stop_id |-> stop_id, stop_sequence |-> stop_sequence,
     arrival |-> arrival, departure |-> departure]

TripDescriptor(trip_id, route_id, start_date, direction_id) ==
    [trip_id |-> trip_id, route_id |-> route_id,
     start_date |-> start_date, direction_id |-> direction_id]

VehicleDescriptor(id, label) == Some([id |-> id, label |-> label])

TripUpdateEntity(trip, vehicle, stus) ==
    [trip_update |-> Some([trip |-> trip, vehicle |-> vehicle, stop_time_update |-> stus])]

\* an entity of another kind (a vehicle position, an alert)
OtherEntity == [trip_update |-> None]

Tok20240115 == <<"2", "0", "2", "4", "0", "1", "1", "5">>

Tok20240116 == <<"2", "0", "2", "4", "0", "1", "1", "6">>

\* seven characters: strptime reads the month 11 and the day 5
Tok2024115 == <<"2", "0", "2", "4", "1", "1", "5">>

\* 30 February
Tok20240230 == <<"2", "0", "2", "4", "0", "2", "3", "0">>

\* with separators: no match
TokDashed == <<"2", "0", "2", "4", "-", "0", "1", "-", "1", "5">>

\* nine characters: unconverted data remains
Tok202401151 == <<"2", "0", "2", "4", "0", "1", "1", "5", "1">>

DateTokens == {Tok20240115, Tok2024115, Tok20240230, TokDashed, Tok202401151, <<>>}

ArrivalChoices ==
    {None, StopTimeEvent(None, Some(7)), StopTimeEvent(Some(0), None),
     StopTimeEvent(Some(LATE_THRESHOLD + 1), Some(7))}

DepartureChoices ==
    {None, StopTimeEvent(None, Some(9)), StopTimeEvent(Some(0), None),
     StopTimeEvent(Some(EARLY_THRESHOLD - 1), Some(9))}

StuCases ==
    {StopTimeUpdate(sid, sq, a, d) :
        sid \in {None, Some(""), Some("S1")}, sq \in {None, Some(0), Some(1)},
        a \in ArrivalChoices, d \in DepartureChoices}

GoodStu == StopTimeUpdate(Some("S2"), Some(2), StopTimeEvent(Some(0), None), None)

BadStu == StopTimeUpdate(None, Some(3), StopTimeEvent(Some(0), None), None)

GoodTrip == TripDescriptor(Some("T1"), Some("R1"), Some(Tok20240115), None)

TripCases ==
    {TripDescriptor(Some("T1"), r, sd, None) :
        r \in {None, Some(""), Some("R1")},
        sd \in {None} \cup {Some(t) : t \in DateTokens}}
    \cup {TripDescriptor(None, Some("R1"), Some(Tok20240115), Some(1))}

VehicleCases ==
    {None, VehicleDescriptor(Some("V1"), Some("L1")), VehicleDescriptor(None, Some("L1")),
     VehicleDescriptor(None, None)}

\* the sequences of length n with one element from cases and the others
\* all the same element of fill
OneFree(n, cases, fill) ==
    IF n = 0 THEN {<<>>}
    ELSE {[i \in 1..n |-> IF i = k THEN c ELSE f] :
            k \in 1..n, c \in cases, f \in fill}

StuSeqs(max) == UNION {OneFree(n, StuCases, {GoodStu, BadStu}) : n \in 0..max}

FillStuSeqs(max) == UNION {OneFree(n, {GoodStu, BadStu}, {GoodStu, BadStu}) : n \in 0..max}

GoodEntity == TripUpdateEntity(GoodTrip, None, <<GoodStu>>)

\* a trip update without a route id, with a valid stop-time update
BadEntity ==
    TripUpdateEntity(TripDescriptor(Some("T2"), None, Some(Tok20240115), None), None, <<GoodStu>>)

EntityCases(max) ==
    {OtherEntity}
    \cup {TripUpdateEntity(GoodTrip, None, stus) : stus \in StuSeqs(max)}
    \cup {TripUpdateEntity(t, None, stus) : t \in TripCases, stus \in FillStuSeqs(max)}
    \cup {TripUpdateEntity(GoodTrip, v, <<GoodStu>>) : v \in VehicleCases}

\* the feeds of at most n entities; the header of one has no timestamp
Feeds(n) ==
    {[header_timestamp |-> Some(5), entity |-> es] :
        es \in UNION {OneFree(m, EntityCases(MaxStus), {GoodEntity, BadEntity}) : m \in 0..n}}
    \cup {[header_timestamp |-> None, entity |-> <<GoodEntity>>]}

----------------------------------------------------------------------------
(* The state after create_tables: the tables are empty, no call is running *)

IdleAgg ==
    [pc |-> "idle", date |-> None, rerun |-> FALSE,
     before_daily |-> {}, before_hourly |-> {},
     daily_count |-> None, hourly_count |-> None,
     conn |-> None, should_close |-> FALSE, seen |-> {}]

\* no fetch_trip_updates call has been made
IdlePoller ==
    [pc |-> "idle", calls |-> 0, archive |-> FALSE, response |-> None, data |-> None,
     parsed |-> FALSE, feed |-> None, ret |-> None, raised |-> None,
     stale |-> FALSE, checked_at |-> None,
     files_before |-> <<>>, archived_before |-> <<>>]

\* GTFSRealtimePoller(archive_dir=dir) has been constructed; the clock
\* reads the start of second MAX_FEED_AGE_SECONDS
InitPoller(dir) ==
    /\ clock = [second |-> MAX_FEED_AGE_SECONDS, half |-> 0]
    /\ archive_dir = dir
    /\ archive_files = <<>>
    /\ poller = IdlePoller
    /\ archived = <<>>

\* no backfill_aggregations call is running
IdleBackfill ==
    [pc |-> "idle", start_date |-> None, end_date |-> None, current_date |-> None,
     results |-> <<>>, before_daily |-> {}, before_hourly |-> {},
     conn |-> None, should_close |-> FALSE]

\* the connections a call may work on: the one its caller supplies, the
\* one run_daily_aggregation opens, the one backfill_aggregations opens
ConnIds == {"caller", "run", "backfill"}

\* no connection has been opened
NoConnections == [c \in ConnIds |-> None]

\* the connections when a call is made with the argument conn: the
\* caller's connection, if any, is open
CallerConnections(conn) ==
    [c \in ConnIds |-> IF conn = Some(c) THEN Some(0) ELSE None]

\* a mutant of should_close: the connection is closed whoever opened it
should_close_always(conn) == TRUE

\* should_close = conn is None
should_close(conn) == conn = None

\* duckdb.connect(...): the connection c is opened
get_connection(conns, c) == [conns EXCEPT ![c] = Some(0)]

\* conn.close()
close(conns, c) == [conns EXCEPT ![c] = Some(@[1] + 1)]

\* run_daily_aggregation leaves: finally, if should_close, conn.close()
Released(a, conns) ==
    IF a.pc \in {"returned", "raised"} /\ a.should_close
    THEN close(conns, a.conn[1])
    ELSE conns

InitStore ==
    /\ facts = {}
    /\ daily = {}
    /\ hourly = {}
    /\ agg = IdleAgg
    /\ latest = <<>>
    /\ fresh = {}
    /\ ops = 0
    /\ bf = IdleBackfill
    /\ poll_log = {}
    /\ poll_log_seq = 1
    /\ connections = NoConnections

----------------------------------------------------------------------------
(* is_on_time on its own *)

DelayArgs ==
    {None} \cup {Some(d) : d \in (EARLY_THRESHOLD - 60 - MaxMargin)..(LATE_THRESHOLD + 60 + MaxMargin)}

InitClassify ==
    /\ delay_arg \in DelayArgs
    /\ on_time_ret = None
    /\ feed = [header_timestamp |-> None, entity |-> <<>>]
    /\ observed_at = 0
    /\ events = <<>>
    /\ extracted = FALSE
    /\ InitStore
    /\ InitPoller(None)

Classify ==
    /\ on_time_ret = None
    /\ on_time_ret' = Some(is_on_time(delay_arg))
    /\ UNCHANGED <<delay_arg, extractVars, storeVars, jobVars, connections, pollerVars>>

SpecClassify == InitClassify /\ [][Classify]_vars

----------------------------------------------------------------------------
(* process_trip_updates on its own *)

InitExtract ==
    /\ delay_arg = None
    /\ on_time_ret = None
    /\ feed \in Feeds(MaxEntities)
    /\ observed_at \in NowChoices
    /\ events = <<>>
    /\ extracted = FALSE
    /\ InitStore
    /\ InitPoller(None)

ProcessTripUpdates ==
    /\ ~extracted
    /\ events' = process_trip_updates(feed, observed_at)
    /\ extracted' = TRUE
    /\ UNCHANGED <<callVars, pollerVars, feed, observed_at, storeVars, jobVars, connections>>

SpecExtract == InitExtract /\ [][ProcessTripUpdates]_vars

----------------------------------------------------------------------------
(* Properties of is_on_time and process_trip_updates *)

\* d lies in the on-time window, both bounds included
InWindow(d) == d >= EARLY_THRESHOLD /\ d <= LATE_THRESHOLD

\* C1: for every integer delay d, is_on_time(d) is true iff
\* EARLY_THRESHOLD <= d <= LATE_THRESHOLD and false otherwise, and
\* is_on_time(None) is None, neither true nor false.
C1_Classification ==
    on_time_ret # None =>
        /\ delay_arg = None => on_time_ret[1] = None
        /\ delay_arg # None =>
            /\ on_time_ret[1] # None
            /\ on_time_ret[1][1] = TRUE <=> InWindow(delay_arg[1])
            /\ on_time_ret[1][1] = FALSE <=> ~InWindow(delay_arg[1])

C1_Witness ==
    /\ delay_arg = Some(LATE_THRESHOLD)
    /\ on_time_ret = Some(Some(TRUE))

\* the entity has a trip update whose route id is present and not empty and
\* whose start date is present and parses
QualifiedTrip(e) ==
    /\ e.trip_update # None
    /\ e.trip_update[1].trip.route_id \notin {None, Some("")}
    /\ e.trip_update[1].trip.start_date # None
    /\ parse_service_date(e.trip_update[1].trip.start_date[1]) # None

\* the stop-time update has a stop id (not empty) and a stop sequence
QualifiedStu(stu) == stu.stop_id \notin {None, Some("")} /\ stu.stop_sequence # None

\* the places <<entity index, stop-time-update index>> of the feed that are
\* to yield an observation
Qualified(f) ==
    UNION {IF QualifiedTrip(f.entity[i])
           THEN {<<i, j>> : j \in {k \in 1..Len(f.entity[i].trip_update[1].stop_time_update) :
                        QualifiedStu(f.entity[i].trip_update[1].stop_time_update[k])}}
           ELSE {} : i \in 1..Len(f.entity)}

\* the position in the output of the observation of place q among the
\* qualified places Q: the places are emitted in feed order
Rank(Q, q) ==
    1 + Cardinality({p \in Q : p[1] < q[1] \/ (p[1] = q[1] /\ p[2] < q[2])})

StuAt(f, q) == f.entity[q[1]].trip_update[1].stop_time_update[q[2]]

\* the classification the delays of a stop-time update call for: that of
\* the arrival delay if the field is there, else that of the departure
\* delay if the field is there, else undefined
ExpectedOnTime(stu) ==
    IF stu.arrival # None /\ stu.arrival[1].delay # None
    THEN Some(InWindow(stu.arrival[1].delay[1]))
    ELSE IF stu.departure # None /\ stu.departure[1].delay # None
    THEN Some(InWindow(stu.departure[1].delay[1]))
    ELSE None

\* C2: every emitted observation carries the delays of its stop-time update
\* as they are (an absent delay stays absent), and its is_on_time is the
\* classification of the arrival delay when that is present (0 included),
\* of the departure delay when only that is present, None when neither is.
C2_DelayPrecedence ==
    extracted =>
        LET Q == Qualified(feed)
        IN  \A q \in Q :
            /\ Rank(Q, q) <= Len(events)
            /\ LET ev  == events[Rank(Q, q)]
                   stu == StuAt(feed, q)
               IN  /\ ev.is_on_time = ExpectedOnTime(stu)
                   /\ ev.arrival_delay =
                        (IF stu.arrival = None THEN None ELSE stu.arrival[1].delay)
                   /\ ev.departure_delay =
                        (IF stu.departure = None THEN None ELSE stu.departure[1].delay)

\* an observation with a present arrival delay of 0 and an early
\* departure delay, classified on time from the arrival delay
C2_Witness ==
    /\ extracted
    /\ \E i \in 1..Len(events) :
        /\ events[i].arrival_delay = Some(0)
        /\ events[i].departure_delay = Some(EARLY_THRESHOLD - 1)
        /\ events[i].is_on_time = Some(TRUE)

\* C3: process_trip_updates emits exactly one observation for each
\* stop-time update that has a stop id and a stop sequence and belongs to a
\* trip update with a route id and a parseable start date, and nothing
\* else; an entity without a trip update contributes none.
C3_OnePerQualifiedUpdate ==
    extracted =>
      LET Q == Qualified(feed)
      IN
        /\ Len(events) = Cardinality(Q)
        /\ \A q \in Q :
            LET ev   == events[Rank(Q, q)]
                trip == feed.entity[q[1]].trip_update[1].trip
            IN  /\ Some(ev.route_id) = trip.route_id
                /\ Some(ev.service_date) = parse_service_date(trip.start_date[1])
                /\ Some(ev.stop_id) = StuAt(feed, q).stop_id
                /\ Some(ev.stop_sequence) = StuAt(feed, q).stop_sequence
        /\ (\A i \in 1..Len(feed.entity) : feed.entity[i].trip_update = None)
            => events = <<>>

\* a feed of an entity without a trip update and of a trip update with
\* one qualified stop-time update, which is the only observation
C3_Witness ==
    /\ extracted
    /\ Len(feed.entity) = 2
    /\ feed.entity[1] = OtherEntity
    /\ feed.entity[2] = GoodEntity
    /\ Len(events) = 1
    /\ events[1].stop_id = "S2"

\* the token is eight digits that name a calendar date
ValidYYYYMMDD(tok) ==
    /\ Len(tok) = 8
    /\ \A i \in 1..8 : IsDigit(tok[i])
    /\ IntOf(tok, 1, 4) >= 1
    /\ IntOf(tok, 5, 2) \in 1..12
    /\ IntOf(tok, 7, 2) \in 1..DaysInMonth(IntOf(tok, 1, 4), IntOf(tok, 5, 2))

\* the trip update is to be skipped: no route id, no start date, or a start
\* date that is not a valid YYYYMMDD date
SkippedTrip(e) ==
    \/ e.trip_update[1].trip.route_id \in {None, Some("")}
    \/ e.trip_update[1].trip.start_date = None
    \/ ~ValidYYYYMMDD(e.trip_update[1].trip.start_date[1])

\* the number of observations the entities i.. are to yield when skipped
\* trips yield none and every other trip one per qualified stop-time update
RECURSIVE ExpectedCount(_, _)
ExpectedCount(f, i) ==
    IF i > Len(f.entity) THEN 0
    ELSE (IF f.entity[i].trip_update = None \/ SkippedTrip(f.entity[i])
          THEN 0
          ELSE Cardinality({j \in 1..Len(f.entity[i].trip_update[1].stop_time_update) :
                    QualifiedStu(f.entity[i].trip_update[1].stop_time_update[j])}))
         + ExpectedCount(f, i + 1)

\* C4: a trip update whose route id is missing, or whose start date is
\* missing or not a valid YYYYMMDD date, yields no observation, and every
\* other trip update of the feed still yields its observations.
C4_InvalidTripSkipped ==
    extracted => Len(events) = ExpectedCount(feed, 1)

\* C5: within a valid trip update a stop-time update lacking a stop id or a
\* stop sequence is dropped and every sibling that has both (a stop
\* sequence of 0 included) yields its observation; no observation has an
\* empty stop id or an undefined stop sequence.
C5_StopUpdateGate ==
    extracted =>
      LET Q == Qualified(feed)
      IN
        /\ \A k \in 1..Len(events) :
            events[k].stop_id # "" /\ events[k].stop_sequence \in Nat
        /\ \A i \in 1..Len(feed.entity) :
            QualifiedTrip(feed.entity[i]) =>
                LET stus == feed.entity[i].trip_update[1].stop_time_update
                    kept == {j \in 1..Len(stus) :
                                stus[j].stop_id \notin {None, Some("")}
                                /\ stus[j].stop_sequence # None}
                    from == {Rank(Q, <<i, j>>) : j \in kept}
                IN  /\ Cardinality(from) = Cardinality(kept)
                    /\ \A j \in kept :
                        /\ Rank(Q, <<i, j>>) <= Len(events)
                        /\ events[Rank(Q, <<i, j>>)].stop_id = stus[j].stop_id[1]
                        /\ events[Rank(Q, <<i, j>>)].stop_sequence = stus[j].stop_sequence[1]
        /\ Len(events) <= Cardinality(Q)

\* a trip update with a stop-time update without a stop id and a sibling of
\* stop sequence 0, which is the only observation
C5_Witness ==
    /\ extracted
    /\ Len(feed.entity) = 1
    /\ feed.entity[1].trip_update # None
    /\ Len(feed.entity[1].trip_update[1].stop_time_update) = 2
    /\ feed.entity[1].trip_update[1].stop_time_update[1] = BadStu
    /\ feed.entity[1].trip_update[1].stop_time_update[2].stop_sequence = Some(0)
    /\ Len(events) = 1
    /\ events[1].stop_sequence = 0

\* C19: the observations of one process_trip_updates call all carry the
\* clock reading of the call as observed_at, and hour_of_day (0..23) and
\* day_of_week (0 = Monday .. 6 = Sunday) are the hour and the weekday of
\* that reading, whatever the predicted times, the service date and the
\* feed timestamp are.
C19_ClockOfThePoll ==
    extracted =>
        \A i \in 1..Len(events) :
            /\ events[i].observed_at = observed_at
            /\ events[i].hour_of_day \in 0..23
            /\ events[i].day_of_week \in 0..6
            /\ 24 * events[i].day_of_week + events[i].hour_of_day = observed_at

\* two observations read on a Tuesday at 17 h, one with a predicted
\* arrival time, of a feed stamped at another time
C19_Witness ==
    /\ extracted
    /\ observed_at = 41
    /\ Len(events) = 2
    /\ events[1].predicted_arrival = Some(7)
    /\ events[1].feed_timestamp = 5
    /\ \A i \in 1..2 : events[i].hour_of_day = 17 /\ events[i].day_of_week = 1

\* C20: no two observations of the output of one process_trip_updates
\* call have the same natural key (trip id, stop id, stop sequence,
\* service date), also when the feed repeats a trip or a stop-time update.
C20_OncePerNaturalKey ==
    extracted =>
        \A i \in 1..Len(events), j \in 1..Len(events) :
            i # j => <<events[i].trip_id, events[i].stop_id, events[i].stop_sequence,
                       events[i].service_date>>
                     # <<events[j].trip_id, events[j].stop_id, events[j].stop_sequence,
                         events[j].service_date>>

\* C21: every observation process_trip_updates emits has a trip id that is
\* not empty, and a trip update whose trip descriptor has no trip id
\* yields no observation.
C21_TripIdRequired ==
    extracted =>
        /\ \A i \in 1..Len(events) : events[i].trip_id # ""
        /\ (\A i \in 1..Len(feed.entity) :
                feed.entity[i].trip_update # None
                    => feed.entity[i].trip_update[1].trip.trip_id \in {None, Some("")})
            => events = <<>>

----------------------------------------------------------------------------
(* The pipeline: polls upsert the observations of a feed into the fact      *)
(* store, and run_daily_aggregation replaces the summaries of a date,       *)
(* statement by statement.  Polls and aggregation runs do not overlap.      *)

MaxOps == 4

Date20240115 == [year |-> 2024, month |-> 1, day |-> 15]

Date20240116 == [year |-> 2024, month |-> 1, day |-> 16]

TargetDates == {Date20240115, Date20240116}

StoreDelayChoices ==
    {<<None, None>>, <<None, StopTimeEvent(Some(0), None)>>}
    \cup {<<StopTimeEvent(Some(d), None), None>> :
            d \in {EARLY_THRESHOLD - 1, EARLY_THRESHOLD, LATE_THRESHOLD, LATE_THRESHOLD + 1}}

StoreStus ==
    {StopTimeUpdate(Some("S1"), Some(1), ad[1], ad[2]) : ad \in StoreDelayChoices}
    \cup {StopTimeUpdate(Some("S1"), Some(2), StopTimeEvent(Some(d), None), None) :
            d \in {EARLY_THRESHOLD, LATE_THRESHOLD + 1}}

StoreFixedStu ==
    StopTimeUpdate(Some("S1"), Some(1), StopTimeEvent(Some(LATE_THRESHOLD), None), None)

StoreEntities ==
    {TripUpdateEntity(GoodTrip, VehicleDescriptor(Some("V1"), None), <<stu>>) :
        stu \in StoreStus}
    \cup {TripUpdateEntity(GoodTrip, VehicleDescriptor(Some("V1"), None),
                           <<StopTimeUpdate(Some("S1"), Some(1),
                                            StopTimeEvent(Some(EARLY_THRESHOLD - 1), None), None),
                             StoreFixedStu>>)}
    \cup {TripUpdateEntity(TripDescriptor(Some("T1"), Some("R2"), Some(Tok20240115), None),
                           None, <<StoreFixedStu>>),
          TripUpdateEntity(TripDescriptor(Some("T1"), Some("R1"), Some(Tok20240116), None),
                           None, <<StoreFixedStu>>),
          OtherEntity}

StoreFeeds == {[header_timestamp |-> Some(5), entity |-> <<e>>] : e \in StoreEntities}

InitPipeline ==
    /\ delay_arg = None
    /\ on_time_ret = None
    /\ feed = [header_timestamp |-> None, entity |-> <<>>]
    /\ observed_at = 0
    /\ events = <<>>
    /\ extracted = FALSE
    /\ InitStore
    /\ InitPoller(None)

\* no aggregation run and no backfill is in progress
Quiet ==
    /\ agg.pc \in {"idle", "returned", "raised"}
    /\ bf.pc \in {"idle", "returned", "raised"}

\* history: the observation upserted last for each natural key
LatestAfter(l, evs) ==
    [k \in DOMAIN l \cup {Key(evs[i]) : i \in 1..Len(evs)} |->
        IF \E i \in 1..Len(evs) : Key(evs[i]) = k
        THEN evs[CHOOSE i \in 1..Len(evs) :
                    Key(evs[i]) = k /\ \A j \in (i + 1)..Len(evs) : Key(evs[j]) # k]
        ELSE l[k]]

\* one poll at the clock reading now: the observations of feed f are
\* extracted and upserted, insert_stop_delay_events(conn, process_trip_updates(f))
Poll(f, now) ==
    /\ Quiet
    /\ ops < MaxOps
    /\ events' = process_trip_updates(f, now)
    /\ UNCHANGED <<feed, observed_at, extracted>>
    /\ facts' = insert_stop_delay_events(facts, events')
    /\ latest' = LatestAfter(latest, events')
    /\ fresh' = IF facts' = facts THEN fresh ELSE {}
    /\ agg' = IdleAgg
    /\ bf' = IdleBackfill
    /\ ops' = ops + 1
    /\ connections' = NoConnections
    /\ UNCHANGED <<callVars, pollerVars, daily, hourly, poll_log, poll_log_seq>>

\* run_daily_aggregation(target_date, conn) is entered: should_close is
\* set, and with no conn the call works on a connection of its own; seen
\* is history, the states the fact table has had during the call
Entered(d, conn) ==
    [pc |-> "daily_delete", date |-> Some(d), rerun |-> d \in fresh,
     before_daily |-> {r \in daily : r.service_date = d},
     before_hourly |-> {r \in hourly : r.service_date = d},
     daily_count |-> None, hourly_count |-> None,
     conn |-> IF conn = None THEN Some("run") ELSE conn,
     should_close |-> should_close(conn),
     seen |-> {facts}]

\* run_daily_aggregation(target_date, conn) is called on its own
StartAggregation(d, conn) ==
    /\ Quiet
    /\ ops < MaxOps
    /\ agg' = Entered(d, conn)
    /\ connections' = IF conn = None
                      THEN get_connection(CallerConnections(conn), "run")
                      ELSE CallerConnections(conn)
    /\ bf' = IdleBackfill
    /\ ops' = ops + 1
    /\ UNCHANGED <<callVars, pollerVars, extractVars, facts, daily, hourly, latest, fresh,
                   poll_log, poll_log_seq>>

\* A statement of the aggregation takes the outcome of the storage: with
\* fails the statement raises a storage error and, being a transaction of
\* its own (autocommit), leaves the tables as they were; the error is not
\* caught by run_daily_aggregation.

\* aggregate_daily_route_summary: the DELETE
DailyDelete(fails) ==
    /\ agg.pc = "daily_delete"
    /\ IF fails
       THEN /\ agg' = [agg EXCEPT !.pc = "raised"]
            /\ UNCHANGED <<daily, fresh>>
       ELSE /\ daily' = DeleteForDate(daily, agg.date[1])
            /\ agg' = [agg EXCEPT !.pc = "daily_insert"]
            /\ fresh' = fresh \ {agg.date[1]}
    /\ connections' = Released(agg', connections)
    /\ UNCHANGED <<callVars, pollerVars, extractVars, facts, hourly, latest, ops, jobVars>>

\* aggregate_daily_route_summary: the INSERT ... SELECT
DailyInsert(fails) ==
    /\ agg.pc = "daily_insert"
    /\ IF fails \/ DailyInsertRaises(daily, DailySelect(facts, agg.date[1]))
       THEN /\ agg' = [agg EXCEPT !.pc = "raised"]
            /\ UNCHANGED daily
       ELSE /\ agg' = [agg EXCEPT !.pc = "daily_count"]
            /\ daily' = daily \cup DailySelect(facts, agg.date[1])
    /\ connections' = Released(agg', connections)
    /\ UNCHANGED <<callVars, pollerVars, extractVars, facts, hourly, latest, fresh, ops, jobVars>>

\* aggregate_daily_route_summary: the SELECT COUNT(*) and the return
DailyCount(fails) ==
    /\ agg.pc = "daily_count"
    /\ agg' = IF fails
              THEN [agg EXCEPT !.pc = "raised"]
              ELSE [agg EXCEPT !.pc = "hourly_delete",
                               !.daily_count = Some(CountForDate(daily, agg.date[1]))]
    /\ connections' = Released(agg', connections)
    /\ UNCHANGED <<callVars, pollerVars, extractVars, facts, daily, hourly, latest, fresh, ops, jobVars>>

\* aggregate_hourly_route_summary: the DELETE
HourlyDelete(fails) ==
    /\ agg.pc = "hourly_delete"
    /\ IF fails
       THEN /\ agg' = [agg EXCEPT !.pc = "raised"]
            /\ UNCHANGED hourly
       ELSE /\ hourly' = DeleteForDate(hourly, agg.date[1])
            /\ agg' = [agg EXCEPT !.pc = "hourly_insert"]
    /\ connections' = Released(agg', connections)
    /\ UNCHANGED <<callVars, pollerVars, extractVars, facts, daily, latest, fresh, ops, jobVars>>

\* aggregate_hourly_route_summary: the INSERT ... SELECT
HourlyInsert(fails) ==
    /\ agg.pc = "hourly_insert"
    /\ IF fails \/ HourlyInsertRaises(hourly, HourlySelect(facts, agg.date[1]))
       THEN /\ agg' = [agg EXCEPT !.pc = "raised"]
            /\ UNCHANGED hourly
       ELSE /\ agg' = [agg EXCEPT !.pc = "hourly_count"]
            /\ hourly' = hourly \cup HourlySelect(facts, agg.date[1])
    /\ connections' = Released(agg', connections)
    /\ UNCHANGED <<callVars, pollerVars, extractVars, facts, daily, latest, fresh, ops, jobVars>>

\* aggregate_hourly_route_summary: the SELECT COUNT(*); run_daily_aggregation returns
HourlyCount(fails) ==
    /\ agg.pc = "hourly_count"
    /\ IF fails
       THEN /\ agg' = [agg EXCEPT !.pc = "raised"]
            /\ UNCHANGED fresh
       ELSE /\ agg' = [agg EXCEPT !.pc = "returned",
                                  !.hourly_count = Some(CountForDate(hourly, agg.date[1]))]
            /\ fresh' = fresh \cup {agg.date[1]}
    /\ connections' = Released(agg', connections)
    /\ UNCHANGED <<callVars, pollerVars, extractVars, facts, daily, hourly, latest, ops, jobVars>>

\* polls and single-date aggregation runs over a storage that works
Next ==
    \/ \E f \in StoreFeeds, now \in NowChoices : Poll(f, now)
    \/ \E d \in TargetDates : StartAggregation(d, None)
    \/ DailyDelete(FALSE)
    \/ DailyInsert(FALSE)
    \/ DailyCount(FALSE)
    \/ HourlyDelete(FALSE)
    \/ HourlyInsert(FALSE)
    \/ HourlyCount(FALSE)

Spec == InitPipeline /\ [][Next]_vars

----------------------------------------------------------------------------
(* Properties of the fact store and of the aggregation *)

\* C6: after any sequence of insert_stop_delay_events calls (a batch may
\* hold the same key twice) the fact store holds at most one row per
\* natural key (trip id, stop id, stop sequence, service date), and that
\* row bears all the values of the observation upserted last with that key.
C6_UpsertLatestWins ==
    /\ \A r1 \in facts, r2 \in facts : Key(r1) = Key(r2) => r1 = r2
    /\ {Key(r) : r \in facts} = DOMAIN latest
    /\ \A r \in facts : r = latest[Key(r)]

\* a batch with the same key twice and different delays has been upserted
C6_Witness ==
    /\ Len(events) = 2
    /\ Key(events[1]) = Key(events[2])
    /\ events[1].arrival_delay # events[2].arrival_delay
    /\ events[2] \in facts
    /\ events[1] \notin facts
    /\ Cardinality(facts) >= 2

\* the rows of a summary table for date d
RowsOf(tbl, d) == {r \in tbl : r.service_date = d}

\* C7: running the single-date aggregation again for a date, the fact
\* store unchanged since the run before, succeeds and leaves the same daily
\* and hourly summary rows, with no two rows for one (date, route) or
\* (date, route, hour).
C7_AggregationIdempotent ==
    (agg.pc \in {"returned", "raised"} /\ agg.rerun) =>
        /\ agg.pc = "returned"
        /\ RowsOf(daily, agg.date[1]) = agg.before_daily
        /\ RowsOf(hourly, agg.date[1]) = agg.before_hourly
        /\ \A r1 \in daily, r2 \in daily :
            (r1.service_date = r2.service_date /\ r1.route_id = r2.route_id) => r1 = r2
        /\ \A r1 \in hourly, r2 \in hourly :
            (r1.service_date = r2.service_date /\ r1.route_id = r2.route_id
                /\ r1.hour_of_day = r2.hour_of_day) => r1 = r2
        /\ agg.daily_count = Some(Cardinality(agg.before_daily))
        /\ agg.hourly_count = Some(Cardinality(agg.before_hourly))

\* a second run for a date that has daily and hourly rows has returned
C7_Witness ==
    /\ agg.pc = "returned"
    /\ agg.rerun
    /\ agg.before_daily # {}
    /\ Cardinality(agg.before_hourly) >= 2

\* the positions of a run at which the daily INSERT has been done
AfterDailyInsert ==
    {"daily_count", "hourly_delete", "hourly_insert", "hourly_count", "returned"}

\* the fact rows of date d that the daily and hourly statements read
Counted(d) == {f \in facts : f.service_date = d /\ f.arrival_delay # None}

\* C8: after aggregate_daily_route_summary(D) has succeeded the daily rows
\* of D are those of the current fact rows of D: one row per route with a
\* fact row in the aggregation population, total_observations the number
\* of those rows, on_time_count the number of them with is_on_time true,
\* on_time_percentage = on_time_count / total_observations * 100; a row of
\* an earlier run for a route without such fact rows is gone.
C8_DailyDerivedFromFacts ==
    agg.pc \in AfterDailyInsert =>
        LET d    == agg.date[1]
            rows == RowsOf(daily, d)
        IN  /\ {r.route_id : r \in rows} = {f.route_id : f \in Counted(d)}
            /\ \A r1 \in rows, r2 \in rows : r1.route_id = r2.route_id => r1 = r2
            /\ \A r \in rows :
                LET g == {f \in Counted(d) : f.route_id = r.route_id}
                IN  /\ r.total_observations = Cardinality(g)
                    /\ r.on_time_count = Cardinality({f \in g : f.is_on_time = Some(TRUE)})
                    /\ r.on_time_percentage.den # 0
                    /\ r.on_time_percentage.num * r.total_observations
                        = r.on_time_count * 100 * r.on_time_percentage.den

\* the daily INSERT has just run, a route of the earlier rows of the date
\* has no row any more, and another route has a row
C8_Witness ==
    /\ agg.pc = "daily_count"
    /\ \E old \in agg.before_daily :
        /\ \A r \in RowsOf(daily, agg.date[1]) : r.route_id # old.route_id
        /\ \E r \in RowsOf(daily, agg.date[1]) : r.total_observations >= 1

\* the fact row has a known delay and a defined classification: its
\* arrival delay is present, or only its departure delay is
KnownDelay(f) ==
    (f.arrival_delay # None \/ f.departure_delay # None) /\ f.is_on_time # None

\* C9: the aggregation population leaves out exactly the fact rows whose
\* delay is null: a fact row with a known delay and a defined
\* classification (arrival delay present, or only the departure delay
\* present) is counted in total_observations, one with no delay is not.
C9_PopulationIsKnownDelays ==
    agg.pc \in AfterDailyInsert =>
        LET d == agg.date[1]
        IN  \A route \in {f.route_id : f \in RowsOf(facts, d)} :
                LET known == {f \in RowsOf(facts, d) : f.route_id = route /\ KnownDelay(f)}
                    rows  == {r \in RowsOf(daily, d) : r.route_id = route}
                IN  IF known = {}
                    THEN rows = {}
                    ELSE \E r \in rows : r.total_observations = Cardinality(known)

\* C10: in every daily row early_count is the number of counted
\* observations with a delay strictly below EARLY_THRESHOLD and late_count
\* the number with a delay strictly above LATE_THRESHOLD; an observation at
\* exactly EARLY_THRESHOLD or LATE_THRESHOLD is in on_time_count and in
\* neither of the two.
C10_StrictEarlyLate ==
    agg.pc \in AfterDailyInsert =>
        \A r \in RowsOf(daily, agg.date[1]) :
            LET g == {f \in Counted(agg.date[1]) : f.route_id = r.route_id}
            IN  /\ r.early_count =
                    Cardinality({f \in g : f.arrival_delay[1] < EARLY_THRESHOLD})
                /\ r.late_count =
                    Cardinality({f \in g : f.arrival_delay[1] > LATE_THRESHOLD})
                /\ r.on_time_count =
                    Cardinality({f \in g : f.arrival_delay[1] >= EARLY_THRESHOLD
                                           /\ f.arrival_delay[1] <= LATE_THRESHOLD})
                /\ r.on_time_count + r.early_count + r.late_count = r.total_observations

\* a daily row over one observation at exactly EARLY_THRESHOLD and one a
\* second earlier
C10_Witness ==
    /\ agg.pc = "daily_count"
    /\ \E r \in RowsOf(daily, agg.date[1]) :
        /\ r.total_observations = 2
        /\ r.early_count = 1
        /\ r.on_time_count = 1
        /\ r.late_count = 0
        /\ \E f \in Counted(agg.date[1]) :
            f.route_id = r.route_id /\ f.arrival_delay = Some(EARLY_THRESHOLD)

\* the positions of a run at which the hourly INSERT has been done
AfterHourlyInsert == {"hourly_count", "returned"}

\* C17: after aggregate_hourly_route_summary(D) has succeeded the hourly
\* rows of D are one row per (route, hour_of_day) occurring among the fact
\* rows of the aggregation population of D, the hour being the one stored
\* on the fact row, with total_observations the number of those fact rows
\* and on_time_count the number of them with is_on_time true.
C17_HourlyDerivedFromFacts ==
    agg.pc \in AfterHourlyInsert =>
        LET d    == agg.date[1]
            rows == RowsOf(hourly, d)
        IN  /\ {<<r.route_id, r.hour_of_day>> : r \in rows}
                = {<<f.route_id, f.hour_of_day>> : f \in Counted(d)}
            /\ \A r1 \in rows, r2 \in rows :
                (r1.route_id = r2.route_id /\ r1.hour_of_day = r2.hour_of_day) => r1 = r2
            /\ \A r \in rows :
                LET g == {f \in Counted(d) :
                            f.route_id = r.route_id /\ f.hour_of_day = r.hour_of_day}
                IN  /\ r.total_observations = Cardinality(g)
                    /\ r.on_time_count = Cardinality({f \in g : f.is_on_time = Some(TRUE)})

\* the hourly INSERT has made two rows of one route for two hours, one
\* of them over an observation that is not on time
C17_Witness ==
    /\ agg.pc = "hourly_count"
    /\ \E r1 \in RowsOf(hourly, agg.date[1]), r2 \in RowsOf(hourly, agg.date[1]) :
        /\ r1.route_id = r2.route_id
        /\ r1.hour_of_day < r2.hour_of_day
        /\ r1.total_observations = 1
        /\ r2.total_observations = 1
        /\ r1.on_time_count + r2.on_time_count = 1

\* C24: in every daily row the three buckets partition the population:
\* on_time_count + early_count + late_count = total_observations, the
\* total is at least 1, on_time_count lies between 0 and the total, and
\* on_time_percentage is a quotient by a non-zero count between 0 and 100.
C24_BucketsPartition ==
    \A r \in daily :
        /\ r.on_time_count + r.early_count + r.late_count = r.total_observations
        /\ r.total_observations >= 1
        /\ r.on_time_count >= 0 /\ r.on_time_count <= r.total_observations
        /\ r.early_count >= 0 /\ r.late_count >= 0
        /\ r.on_time_percentage.den > 0
        /\ r.on_time_percentage.num >= 0
        /\ r.on_time_percentage.num <= 100 * r.on_time_percentage.den

\* a daily row over one observation at exactly LATE_THRESHOLD and one a
\* second later
C24_Witness ==
    /\ agg.pc \in AfterDailyInsert
    /\ \E r \in RowsOf(daily, agg.date[1]) :
        /\ r.total_observations = 2
        /\ r.late_count = 1
        /\ r.on_time_count = 1
        /\ \E f \in Counted(agg.date[1]) :
            f.route_id = r.route_id /\ f.arrival_delay = Some(LATE_THRESHOLD)

\* SUM(col) over a set of summary rows
SumColumn(rows, col) == SumOver(rows, [r \in rows |-> r[col]])

\* C25: after run_daily_aggregation(D) has returned, no fact row having
\* been written during the call, for every route the hourly
\* total_observations of (D, route) sum up to the daily total_observations
\* of (D, route), the hourly on_time_count to the daily on_time_count, and
\* a route has hourly rows for D exactly if it has a daily row for D.
C25_HourlyAddsUpToDaily ==
    agg.pc = "returned" =>
        LET d == agg.date[1]
        IN  /\ {r.route_id : r \in RowsOf(hourly, d)} = {r.route_id : r \in RowsOf(daily, d)}
            /\ \A r \in RowsOf(daily, d) :
                LET hs == {h \in RowsOf(hourly, d) : h.route_id = r.route_id}
                IN  /\ SumColumn(hs, "total_observations") = r.total_observations
                    /\ SumColumn(hs, "on_time_count") = r.on_time_count

\* a run has returned with a daily row over two observations, one of
\* them on time, that fall into two hours
C25_Witness ==
    /\ agg.pc = "returned"
    /\ \E r \in RowsOf(daily, agg.date[1]) :
        /\ r.total_observations = 2
        /\ r.on_time_count = 1
        /\ Cardinality({h \in RowsOf(hourly, agg.date[1]) : h.route_id = r.route_id}) = 2

----------------------------------------------------------------------------
(* src/src/aggregation/daily_summary.py: backfill_aggregations, and         *)
(* src/src/db/queries.py: log_poll                                          *)

\* a mutant of DateLE: date < date
DateLE_strict(a, b) ==
    \/ a.year < b.year
    \/ a.year = b.year /\ a.month < b.month
    \/ a.year = b.year /\ a.month = b.month /\ a.day < b.day

\* date <= date
DateLE(a, b) ==
    \/ a.year < b.year
    \/ a.year = b.year /\ a.month < b.month
    \/ a.year = b.year /\ a.month = b.month /\ a.day <= b.day

\* date + timedelta(days=1)
NextDay(d) ==
    IF d.day < DaysInMonth(d.year, d.month) THEN [d EXCEPT !.day = d.day + 1]
    ELSE IF d.month < 12 THEN [d EXCEPT !.month = d.month + 1, !.day = 1]
    ELSE [year |-> d.year + 1, month |-> 1, day |-> 1]

\* str(date): the ISO form YYYY-MM-DD
DateIso(d) ==
    <<Digits[((d.year \div 1000) % 10) + 1], Digits[((d.year \div 100) % 10) + 1],
      Digits[((d.year \div 10) % 10) + 1], Digits[(d.year % 10) + 1], "-",
      Digits[(d.month \div 10) + 1], Digits[(d.month % 10) + 1], "-",
      Digits[(d.day \div 10) + 1], Digits[(d.day % 10) + 1]>>

\* the dict run_daily_aggregation returns
RunResult(a) ==
    [date |-> DateIso(a.date[1]),
     daily_route_summaries |-> a.daily_count[1],
     hourly_route_summaries |-> a.hourly_count[1]]

\* a mutant of log_poll: the row takes the place of the rows before it
log_poll_replace(tbl, seq, record) ==
    {[poll_id |-> seq, polled_at |-> record.polled_at,
      trip_updates_count |-> record.trip_updates_count,
      fetch_duration_ms |-> record.fetch_duration_ms,
      process_duration_ms |-> record.process_duration_ms,
      error_message |-> record.error_message,
      trip_feed_timestamp |-> record.trip_feed_timestamp]}

\* log_poll: INSERT INTO poll_log ... VALUES (nextval('poll_log_seq'), ...),
\* seq the value nextval yields
log_poll(tbl, seq, record) ==
    tbl \cup {[poll_id |-> seq, polled_at |-> record.polled_at,
               trip_updates_count |-> record.trip_updates_count,
               fetch_duration_ms |-> record.fetch_duration_ms,
               process_duration_ms |-> record.process_duration_ms,
               error_message |-> record.error_message,
               trip_feed_timestamp |-> record.trip_feed_timestamp]}

PollLogRecord(polled_at, trip_updates_count, error_message, trip_feed_timestamp) ==
    [polled_at |-> polled_at, trip_updates_count |-> trip_updates_count,
     fetch_duration_ms |-> Some(120), process_duration_ms |-> Some(30),
     error_message |-> error_message, trip_feed_timestamp |-> trip_feed_timestamp]

Date20240130 == [year |-> 2024, month |-> 1, day |-> 30]

Date20240131 == [year |-> 2024, month |-> 1, day |-> 31]

Date20240201 == [year |-> 2024, month |-> 2, day |-> 1]

Tok20240130 == <<"2", "0", "2", "4", "0", "1", "3", "0">>

Tok20240131 == <<"2", "0", "2", "4", "0", "1", "3", "1">>

Tok20240201 == <<"2", "0", "2", "4", "0", "2", "0", "1">>

\* the dates a backfill range is drawn from: they span a month's end
BackfillDates == {Date20240130, Date20240131, Date20240201}

\* the feeds polled around the backfills: one observation of one of the
\* dates, or one of each date
BackfillFeeds ==
    {[header_timestamp |-> Some(5),
      entity |-> <<TripUpdateEntity(TripDescriptor(Some("T1"), Some("R1"), Some(t), None),
                                    None, <<StoreFixedStu>>)>>] :
        t \in {Tok20240130, Tok20240131, Tok20240201}}
    \cup {[header_timestamp |-> Some(5),
           entity |-> [i \in 1..3 |->
                TripUpdateEntity(TripDescriptor(Some("T1"), Some("R2"),
                                    Some(<<Tok20240130, Tok20240131, Tok20240201>>[i]), None),
                                 None, <<StoreFixedStu>>)]]}

PollRecords ==
    {PollLogRecord(8, Some(1), None, Some(5)),
     PollLogRecord(41, None, Some("fetch failed"), None)}

\* one log_poll(conn, record) call
LogPoll(record) ==
    /\ Quiet
    /\ ops < MaxOps
    /\ poll_log' = log_poll(poll_log, poll_log_seq, record)
    /\ poll_log_seq' = poll_log_seq + 1
    /\ ops' = ops + 1
    /\ UNCHANGED <<callVars, pollerVars, extractVars, facts, daily, hourly, agg, latest, fresh, bf,
                   connections>>

\* backfill_aggregations(start_date, end_date, conn) is entered:
\* results = [], current_date = start_date
StartBackfill(start_date, end_date, conn) ==
    /\ Quiet
    /\ ops < MaxOps
    /\ bf' = [pc |-> "loop", start_date |-> Some(start_date), end_date |-> Some(end_date),
              current_date |-> Some(start_date), results |-> <<>>,
              before_daily |-> daily, before_hourly |-> hourly,
              conn |-> IF conn = None THEN Some("backfill") ELSE conn,
              should_close |-> should_close(conn)]
    /\ connections' = IF conn = None
                      THEN get_connection(CallerConnections(conn), "backfill")
                      ELSE CallerConnections(conn)
    /\ agg' = IdleAgg
    /\ ops' = ops + 1
    /\ UNCHANGED <<callVars, pollerVars, extractVars, facts, daily, hourly, latest, fresh,
                   poll_log, poll_log_seq>>

\* the loop test holds: run_daily_aggregation(current_date, conn) is called
BackfillCall ==
    /\ bf.pc = "loop"
    /\ DateLE(bf.current_date[1], bf.end_date[1])
    /\ agg' = Entered(bf.current_date[1], bf.conn)
    /\ bf' = [bf EXCEPT !.pc = "running"]
    /\ UNCHANGED <<callVars, pollerVars, extractVars, facts, daily, hourly, latest, fresh, ops,
                   poll_log, poll_log_seq, connections>>

\* the call has returned: results.append(result); current_date += one day
BackfillAppend ==
    /\ bf.pc = "running"
    /\ agg.pc = "returned"
    /\ bf' = [bf EXCEPT !.pc = "loop",
                        !.results = Append(bf.results, RunResult(agg)),
                        !.current_date = Some(NextDay(bf.current_date[1]))]
    /\ UNCHANGED <<callVars, pollerVars, extractVars, facts, daily, hourly, agg, latest, fresh, ops,
                   poll_log, poll_log_seq, connections>>

\* the call has raised: nothing catches the error in backfill_aggregations
BackfillRaise ==
    /\ bf.pc = "running"
    /\ agg.pc = "raised"
    /\ bf' = [bf EXCEPT !.pc = "raised"]
    /\ connections' = Released(bf', connections)
    /\ UNCHANGED <<callVars, pollerVars, extractVars, facts, daily, hourly, agg, latest, fresh, ops,
                   poll_log, poll_log_seq>>

\* the loop test fails: return results
BackfillReturn ==
    /\ bf.pc = "loop"
    /\ ~DateLE(bf.current_date[1], bf.end_date[1])
    /\ bf' = [bf EXCEPT !.pc = "returned"]
    /\ connections' = Released(bf', connections)
    /\ UNCHANGED <<callVars, pollerVars, extractVars, facts, daily, hourly, agg, latest, fresh, ops,
                   poll_log, poll_log_seq>>

\* polls, poll-log writes and backfills over a storage that may raise at
\* any statement of an aggregation
NextBackfill ==
    \/ \E f \in BackfillFeeds : Poll(f, 8)
    \/ \E record \in PollRecords : LogPoll(record)
    \/ \E start_date \in BackfillDates, end_date \in BackfillDates :
            StartBackfill(start_date, end_date, None)
    \/ BackfillCall
    \/ BackfillAppend
    \/ BackfillRaise
    \/ BackfillReturn
    \/ \E fails \in BOOLEAN : DailyDelete(fails)
    \/ \E fails \in BOOLEAN : DailyInsert(fails)
    \/ \E fails \in BOOLEAN : DailyCount(fails)
    \/ \E fails \in BOOLEAN : HourlyDelete(fails)
    \/ \E fails \in BOOLEAN : HourlyInsert(fails)
    \/ \E fails \in BOOLEAN : HourlyCount(fails)

SpecBackfill == InitPipeline /\ [][NextBackfill]_vars

----------------------------------------------------------------------------
(* Properties of backfill_aggregations *)

\* the dates of BackfillDates in calendar order
Calendar == <<Date20240130, Date20240131, Date20240201>>

\* the place of a date in the calendar
Place(d) == CHOOSE i \in 1..Len(Calendar) : Calendar[i] = d

\* the written form of each date of the calendar
CalendarIso ==
    << <<"2", "0", "2", "4", "-", "0", "1", "-", "3", "0">>,
       <<"2", "0", "2", "4", "-", "0", "1", "-", "3", "1">>,
       <<"2", "0", "2", "4", "-", "0", "2", "-", "0", "1">> >>

\* the places of the dates of the range of the backfill in progress
RangePlaces == Place(bf.start_date[1])..Place(bf.end_date[1])

\* the summary rows of date d are those the statements compute from the
\* fact rows
Replaced(d) ==
    /\ RowsOf(daily, d) = DailySelect(facts, d)
    /\ RowsOf(hourly, d) = HourlySelect(facts, d)

\* C11: when the aggregation of date k raises a storage error during a
\* backfill, the error leaves backfill_aggregations, the summary rows of
\* every date of the range before k are as the backfill computed them, and
\* there are no summary rows of date k or of a later date that were not
\* there before the backfill.
C11_BackfillFailureLeavesNothing ==
    (bf.pc = "running" /\ agg.pc = "raised") \/ bf.pc = "raised" =>
        LET k == Place(bf.current_date[1])
        IN  /\ \A i \in RangePlaces : i < k => Replaced(Calendar[i])
            /\ \A i \in k..Len(Calendar) :
                /\ RowsOf(daily, Calendar[i]) \subseteq bf.before_daily
                /\ RowsOf(hourly, Calendar[i]) \subseteq bf.before_hourly

\* C12: backfill_aggregations runs the single-date aggregation for the
\* dates of [start, end] in ascending order, one date done (daily and
\* hourly rows replaced) before the next is begun and the later dates not
\* yet touched; when it returns, results holds one result per date of the
\* range in that order, and none, with no summary row changed, when
\* start > end.
C12_BackfillOrder ==
    bf.pc # "idle" =>
        LET first == Place(bf.start_date[1])
            n     == Len(bf.results)
        IN  /\ \A i \in 1..n :
                /\ first + i - 1 \in RangePlaces
                /\ bf.results[i].date = CalendarIso[first + i - 1]
                /\ bf.results[i].daily_route_summaries
                    = Cardinality(DailySelect(facts, Calendar[first + i - 1]))
                /\ bf.results[i].hourly_route_summaries
                    = Cardinality(HourlySelect(facts, Calendar[first + i - 1]))
                /\ Replaced(Calendar[first + i - 1])
            /\ \A i \in RangePlaces :
                i > first + n =>
                    /\ RowsOf(daily, Calendar[i]) = RowsOf(bf.before_daily, Calendar[i])
                    /\ RowsOf(hourly, Calendar[i]) = RowsOf(bf.before_hourly, Calendar[i])
            /\ first + n <= Len(Calendar) => bf.current_date = Some(Calendar[first + n])
            /\ bf.pc = "running" => agg.date = bf.current_date /\ first + n \in RangePlaces
            /\ bf.pc = "returned" =>
                /\ n = Cardinality(RangePlaces)
                /\ RangePlaces = {} => daily = bf.before_daily /\ hourly = bf.before_hourly

\* a backfill over the three dates, which has summary rows to make for
\* the last of them, has returned
C12_Witness ==
    /\ bf.pc = "returned"
    /\ Len(bf.results) = 3
    /\ bf.results[3].daily_route_summaries >= 1
    /\ bf.results[3].hourly_route_summaries >= 1
    /\ bf.before_daily = {}

\* C18: poll_log is append-only: a log_poll call adds exactly one row,
\* whose poll id is greater than every poll id before it, and no step of a
\* poll, a fact upsert, an aggregation or a backfill changes or removes a
\* row of poll_log.
C18_PollLogAppendOnly ==
    [][/\ poll_log \subseteq poll_log'
       /\ \A r \in poll_log' \ poll_log : \A q \in poll_log : r.poll_id > q.poll_id
       /\ IF poll_log_seq' # poll_log_seq
          THEN Cardinality(poll_log' \ poll_log) = 1
          ELSE poll_log' = poll_log]_vars

\* two rows have been logged, the second one after a backfill that made
\* summary rows
C18_Witness ==
    /\ Cardinality(poll_log) = 2
    /\ bf.pc = "returned"
    /\ daily # {}
    /\ \E r \in poll_log : r.poll_id = 1 /\ r.error_message = None

\* C26: when aggregate_daily_route_summary(D) raises after it has started,
\* the daily rows D had before the call are still there, and when
\* aggregate_hourly_route_summary(D) raises, the hourly rows D had before
\* the call are still there.
C26_FailedRerunKeepsRollup ==
    agg.pc = "raised" =>
        IF agg.daily_count = None
        THEN agg.before_daily \subseteq daily
        ELSE agg.before_hourly \subseteq hourly

\* the positions of a run at which a statement is about to be executed
Running ==
    {"daily_delete", "daily_insert", "daily_count",
     "hourly_delete", "hourly_insert", "hourly_count"}

\* the rows of a table for the dates other than d
RowsNotOf(tbl, d) == {r \in tbl : r.service_date # d}

\* C27: a step of the single-date aggregation of date D, whether its
\* statement succeeds or raises, leaves every fact row and the daily and
\* hourly rows of every date other than D as they were.
C27_OnlyRowsOfTheDate ==
    [][agg.pc \in Running =>
        /\ facts' = facts
        /\ RowsNotOf(daily', agg.date[1]) = RowsNotOf(daily, agg.date[1])
        /\ RowsNotOf(hourly', agg.date[1]) = RowsNotOf(hourly, agg.date[1])]_vars

\* a run has raised after it replaced the daily rows of its date, rows
\* of another date being in both summary tables
C27_Witness ==
    /\ agg.pc = "raised"
    /\ agg.daily_count = None
    /\ RowsOf(daily, agg.date[1]) # {}
    /\ agg.before_daily = {}
    /\ RowsNotOf(daily, agg.date[1]) # {}
    /\ RowsNotOf(hourly, agg.date[1]) # {}
    /\ RowsOf(facts, agg.date[1]) # {}

----------------------------------------------------------------------------
(* The connections of run_daily_aggregation and backfill_aggregations: each *)
(* is called with a connection of the caller or with none, over a storage   *)
(* that may raise at any statement.                                         *)

\* the argument conn of a call: None, or the connection of the caller
ConnChoices == {None, Some("caller")}

\* one observation of route R2 on each date of the calendar
ConnectionFeed ==
    [header_timestamp |-> Some(5),
     entity |-> [i \in 1..3 |->
        TripUpdateEntity(TripDescriptor(Some("T1"), Some("R2"),
                            Some(<<Tok20240130, Tok20240131, Tok20240201>>[i]), None),
                         None, <<StoreFixedStu>>)]]

NextConnections ==
    \/ Poll(ConnectionFeed, 8)
    \/ \E d \in BackfillDates, conn \in ConnChoices : StartAggregation(d, conn)
    \/ \E start_date \in BackfillDates, end_date \in BackfillDates, conn \in ConnChoices :
            StartBackfill(start_date, end_date, conn)
    \/ BackfillCall
    \/ BackfillAppend
    \/ BackfillRaise
    \/ BackfillReturn
    \/ \E fails \in BOOLEAN : DailyDelete(fails)
    \/ \E fails \in BOOLEAN : DailyInsert(fails)
    \/ \E fails \in BOOLEAN : DailyCount(fails)
    \/ \E fails \in BOOLEAN : HourlyDelete(fails)
    \/ \E fails \in BOOLEAN : HourlyInsert(fails)
    \/ \E fails \in BOOLEAN : HourlyCount(fails)

SpecConnections == InitPipeline /\ [][NextConnections]_vars

\* the connection is open: it was opened and close() was never called on it
IsOpen(c) == connections[c] = Some(0)

\* close() was called on the connection exactly once
ClosedOnce(c) == connections[c] = Some(1)

\* C22: a connection that run_daily_aggregation or backfill_aggregations
\* opened itself is open while the call runs and closed exactly once when
\* the call has returned or raised; a connection of the caller is never
\* closed; and during a backfill the one connection of the backfill is
\* open at every date, the per-date calls neither closing it nor opening
\* one of their own.
C22_ConnectionsReleased ==
    /\ connections["caller"] \in {None, Some(0)}
    /\ agg.should_close =>
        /\ agg.conn = Some("run")
        /\ IF agg.pc \in Running THEN IsOpen("run") ELSE ClosedOnce("run")
    /\ bf.should_close =>
        /\ bf.conn = Some("backfill")
        /\ IF bf.pc \in {"loop", "running"} THEN IsOpen("backfill") ELSE ClosedOnce("backfill")
    /\ bf.pc \in {"loop", "running"} =>
        /\ IsOpen(bf.conn[1])
        /\ connections["run"] = None
        /\ agg.pc # "idle" => agg.conn = bf.conn /\ ~agg.should_close
    /\ (bf.pc = "idle" /\ agg.pc # "idle" /\ ~agg.should_close) =>
        agg.conn = Some("caller") /\ IsOpen("caller")

\* a backfill on a connection of its own has raised at its second date
\* and closed the connection
C22_Witness ==
    /\ bf.pc = "raised"
    /\ bf.should_close
    /\ Len(bf.results) = 1
    /\ ClosedOnce("backfill")

----------------------------------------------------------------------------
(* A poll that overlaps a run of the aggregation.  The statements of       *)
(* run_daily_aggregation and the executemany of insert_stop_delay_events   *)
(* are each executed on their own, no transaction being opened around the  *)
(* statements of a run, so the upsert may fall between any two of them; a  *)
(* storage that admits no second writer raises at the upsert instead.      *)

\* two polls of route R1 on one date: the first and the second stop of a trip
OverlapFeeds ==
    {[header_timestamp |-> Some(5),
      entity |-> <<TripUpdateEntity(GoodTrip, VehicleDescriptor(Some("V1"), None), <<stu>>)>>] :
        stu \in {StoreFixedStu,
                 StopTimeUpdate(Some("S1"), Some(2),
                                StopTimeEvent(Some(LATE_THRESHOLD + 1), None), None)}}

\* insert_stop_delay_events(conn, process_trip_updates(f)) while a run of
\* the aggregation is between two of its statements; with fails the
\* storage raises and no row is written
OverlappingPoll(f, now, fails) ==
    /\ agg.pc \in Running
    /\ bf.pc = "idle"
    /\ ops < MaxOps
    /\ events' = process_trip_updates(f, now)
    /\ UNCHANGED <<feed, observed_at, extracted>>
    /\ facts' = IF fails THEN facts ELSE insert_stop_delay_events(facts, events')
    /\ latest' = IF fails THEN latest ELSE LatestAfter(latest, events')
    /\ fresh' = IF facts' = facts THEN fresh ELSE {}
    /\ agg' = [agg EXCEPT !.seen = @ \cup {facts'}]
    /\ ops' = ops + 1
    /\ UNCHANGED <<callVars, pollerVars, daily, hourly, jobVars, connections>>

\* polls before, during and after single-date aggregation runs
NextOverlap ==
    \/ \E f \in OverlapFeeds, now \in NowChoices : Poll(f, now)
    \/ \E f \in OverlapFeeds, now \in NowChoices, fails \in BOOLEAN :
            OverlappingPoll(f, now, fails)
    \/ \E d \in TargetDates : StartAggregation(d, None)
    \/ DailyDelete(FALSE)
    \/ DailyInsert(FALSE)
    \/ DailyCount(FALSE)
    \/ HourlyDelete(FALSE)
    \/ HourlyInsert(FALSE)
    \/ HourlyCount(FALSE)

SpecOverlap == InitPipeline /\ [][NextOverlap]_vars

\* C23: when an upsert of fact rows of date D falls within
\* run_daily_aggregation(D), the daily and the hourly rows of D after the
\* run are those of a run that was wholly before or wholly after the
\* upsert: both tables are computed from one and the same state of the
\* fact table.
C23_OverlapSerialized ==
    agg.pc = "returned" =>
        \E S \in agg.seen :
            /\ RowsOf(daily, agg.date[1]) = DailySelect(S, agg.date[1])
            /\ RowsOf(hourly, agg.date[1]) = HourlySelect(S, agg.date[1])

----------------------------------------------------------------------------
(* src/src/gtfs/realtime_poller.py: GTFSRealtimePoller.fetch_trip_updates.  *)
(* The bytes of a response are named by a string; ParseFromString is the   *)
(* table of what each of them decodes to.  The clock counts seconds and    *)
(* the halves of a second; time.time() and strftime read whole seconds.    *)

MaxFetches == 2

MaxSeconds == 2

\* a call returned value v
Returned(v) == [raised |-> None, value |-> v]

\* a call let exception e out
Raised(e) == [raised |-> Some(e), value |-> None]

\* requests.get raised exception e
Failure(e) == [exception |-> Some(e), status_code |-> 0, content |-> ""]

\* requests.get returned a response
Response(status_code, content) ==
    [exception |-> None, status_code |-> status_code, content |-> content]

\* the subclasses of requests.RequestException
RequestExceptions == {"Timeout", "ConnectionError", "HTTPError"}

\* response.raise_for_status(): HTTPError for a 4xx or 5xx status
raise_for_status(response) ==
    IF response.status_code >= 400 /\ response.status_code < 600
    THEN Raised("HTTPError")
    ELSE Returned(None)

\* a mutant of _fetch_feed: the status of the response is not looked at
_fetch_feed_any_status(response) ==
    IF response.exception # None
    THEN (IF response.exception[1] \in RequestExceptions
          THEN Returned(None)
          ELSE Raised(response.exception[1]))
    ELSE Returned(Some(response.content))

\* _fetch_feed(url), response what requests.get does
_fetch_feed(response) ==
    IF response.exception # None
    THEN (IF response.exception[1] \in RequestExceptions
          THEN Returned(None)
          ELSE Raised(response.exception[1]))
    ELSE IF raise_for_status(response).raised # None
    THEN (IF raise_for_status(response).raised[1] \in RequestExceptions
          THEN Returned(None)
          ELSE Raised(raise_for_status(response).raised[1]))
    ELSE Returned(Some(response.content))

FeedMessage(header_timestamp, entity) ==
    [header_timestamp |-> header_timestamp, entity |-> entity]

\* feed.ParseFromString(data): the message, or DecodeError raised
ParseFromString(data) ==
    CASE data = "" -> Returned(FeedMessage(None, <<>>))
      [] data = "unstamped" -> Returned(FeedMessage(None, <<GoodEntity>>))
      [] data = "stamped_1" -> Returned(FeedMessage(Some(1), <<GoodEntity>>))
      [] data = "stamped_later" ->
            Returned(FeedMessage(Some(2 * MAX_FEED_AGE_SECONDS), <<GoodEntity>>))
      [] OTHER -> Raised("DecodeError")

\* _parse_feed(data): except Exception returns None
_parse_feed(data) ==
    IF ParseFromString(data).raised # None THEN None ELSE Some(ParseFromString(data).value)

\* a mutant of _is_feed_stale: age >= max_age
_is_feed_stale_inclusive(message, current_time, max_age) ==
    IF message.header_timestamp = None THEN FALSE
    ELSE current_time - message.header_timestamp[1] >= max_age

\* _is_feed_stale(feed, max_age), with int(time.time()) = current_time
_is_feed_stale(message, current_time, max_age) ==
    IF message.header_timestamp = None THEN FALSE
    ELSE current_time - message.header_timestamp[1] > max_age

\* datetime.now().strftime("%Y%m%d"): the day, counted from the day of second 0
Ymd(now) == now.second \div 86400

\* datetime.now().strftime("%H%M%S")
Hms(now) == <<(now.second \div 3600) % 24, (now.second \div 60) % 60, now.second % 60>>

\* date_dir / f"{feed_type}_{timestamp}.pb.gz"
FileName(dir, feed_type, now) == <<dir, Ymd(now), feed_type, Ymd(now), Hms(now)>>

\* what gzip.open(filename, "wb").write(data) leaves in the file
Gzip(data) == <<"gzip", data>>

\* a mutant of _archive_feed: nothing is written
_archive_feed_nothing(files, dir, data, feed_type, now) == files

\* _archive_feed(data, feed_type): the files after it, with datetime.now()
\* = now at both of its readings
_archive_feed(files, dir, data, feed_type, now) ==
    IF dir = None
    THEN files
    ELSE [name \in DOMAIN files \cup {FileName(dir[1], feed_type, now)} |->
            IF name = FileName(dir[1], feed_type, now) THEN Gzip(data) ELSE files[name]]

\* what requests.get may do
Responses ==
    {Failure("Timeout"), Failure("ConnectionError")}
    \cup {Response(code, content) :
            code \in {200, 404, 503},
            content \in {"", "unstamped", "stamped_1", "stamped_later", "truncated"}}

\* fetch_trip_updates(archive) is called: data = self._fetch_feed(url);
\* if data is None: return None
FetchFeed(archive, response) ==
    /\ poller.pc \in {"idle", "done"}
    /\ poller.calls < MaxFetches
    /\ LET r    == _fetch_feed(response)
           call == [IdlePoller EXCEPT !.calls = poller.calls + 1, !.archive = archive,
                                      !.response = Some(response),
                                      !.files_before = archive_files,
                                      !.archived_before = archived]
       IN  poller' =
             IF r.raised # None THEN [call EXCEPT !.pc = "done", !.raised = r.raised]
             ELSE IF r.value = None THEN [call EXCEPT !.pc = "done"]
             ELSE [call EXCEPT !.pc = IF archive THEN "archive" ELSE "parse",
                               !.data = r.value]
    /\ UNCHANGED <<callVars, extractVars, storeVars, jobVars, connections,
                   clock, archive_dir, archive_files, archived>>

\* if archive: self._archive_feed(data, "trip_updates")
ArchiveFeed ==
    /\ poller.pc = "archive"
    /\ archive_files' =
         _archive_feed(archive_files, archive_dir, poller.data[1], "trip_updates", clock)
    /\ archived' = IF archive_dir = None THEN archived ELSE Append(archived, poller.data[1])
    /\ poller' = [poller EXCEPT !.pc = "parse"]
    /\ UNCHANGED <<callVars, extractVars, storeVars, jobVars, connections, clock, archive_dir>>

\* feed = self._parse_feed(data)
ParseFeed ==
    /\ poller.pc = "parse"
    /\ poller' = [poller EXCEPT !.pc = "check", !.parsed = TRUE,
                                !.feed = _parse_feed(poller.data[1])]
    /\ UNCHANGED <<callVars, extractVars, storeVars, jobVars, connections,
                   clock, archive_dir, archive_files, archived>>

\* if feed and self._is_feed_stale(feed): logger.warning(...); return feed
CheckAndReturn ==
    /\ poller.pc = "check"
    /\ poller' = [poller EXCEPT
            !.pc = "done",
            !.stale = /\ poller.feed # None
                      /\ _is_feed_stale(poller.feed[1], clock.second, MAX_FEED_AGE_SECONDS),
            !.checked_at = Some(clock.second),
            !.ret = poller.feed]
    /\ UNCHANGED <<callVars, extractVars, storeVars, jobVars, connections,
                   clock, archive_dir, archive_files, archived>>

\* half a second passes
Tick ==
    /\ clock.second < MAX_FEED_AGE_SECONDS + MaxSeconds
    /\ clock' = IF clock.half = 0
                THEN [clock EXCEPT !.half = 1]
                ELSE [second |-> clock.second + 1, half |-> 0]
    /\ UNCHANGED <<callVars, extractVars, storeVars, jobVars, connections,
                   archive_dir, archive_files, poller, archived>>

InitFetch ==
    /\ delay_arg = None
    /\ on_time_ret = None
    /\ feed = [header_timestamp |-> None, entity |-> <<>>]
    /\ observed_at = 0
    /\ events = <<>>
    /\ extracted = FALSE
    /\ InitStore
    /\ \E dir \in {None, Some("archive")} : InitPoller(dir)

NextFetch ==
    \/ \E archive \in BOOLEAN, response \in Responses : FetchFeed(archive, response)
    \/ ArchiveFeed
    \/ ParseFeed
    \/ CheckAndReturn
    \/ Tick

SpecPoller == InitFetch /\ [][NextFetch]_vars

----------------------------------------------------------------------------
(* Properties of fetch_trip_updates *)

\* the retrieval ended in a network error or in an error status
FetchFailed(response) ==
    response.exception # None \/ response.status_code \in {404, 503}

\* the bytes that are no encoding of a feed message
Undecodable(data) == data = "truncated"

\* the call archives: the flag is set and the poller has a directory
ArchivingEnabled == poller.archive /\ archive_dir # None

\* C13: fetch_trip_updates lets no exception out; when the retrieval ends
\* in a network or status error it returns None, nothing is archived and
\* the decoder is not called; when the bytes cannot be decoded it returns
\* None.
C13_FetchFailsClosed ==
    /\ poller.raised = None
    /\ (poller.response # None /\ FetchFailed(poller.response[1])) =>
        /\ poller.pc = "done"
        /\ poller.ret = None
        /\ ~poller.parsed
        /\ archive_files = poller.files_before
        /\ archived = poller.archived_before
    /\ (poller.pc = "done" /\ poller.data # None /\ Undecodable(poller.data[1])) =>
        poller.ret = None

\* an archiving call whose response had status 503 and a body has returned
\* None, after an earlier call that archived a payload
C13_Witness ==
    /\ poller.pc = "done"
    /\ poller.archive
    /\ archive_dir # None
    /\ poller.response = Some(Response(503, "stamped_1"))
    /\ poller.ret = None
    /\ Len(archived) = 1

\* C14: a feed that was fetched and decoded is returned as it was decoded,
\* stale or not, and it is flagged stale exactly when its header has a
\* timestamp and the clock reading minus that timestamp is greater than
\* MAX_FEED_AGE_SECONDS (a feed exactly that old is not flagged).
C14_StalenessAdvisory ==
    (poller.pc = "done" /\ poller.data # None /\ ~Undecodable(poller.data[1])) =>
        LET decoded == ParseFromString(poller.data[1]).value
        IN  /\ poller.ret = Some(decoded)
            /\ poller.stale <=>
                /\ decoded.header_timestamp # None
                /\ poller.checked_at[1] - decoded.header_timestamp[1] > MAX_FEED_AGE_SECONDS

\* a feed with an entity, older than the maximum age, was flagged stale
\* and returned
C14_Witness ==
    /\ poller.pc = "done"
    /\ poller.stale
    /\ poller.ret # None
    /\ poller.ret[1].entity # <<>>
    /\ poller.checked_at[1] - poller.ret[1].header_timestamp[1] = MAX_FEED_AGE_SECONDS + 1

\* C15: once the fetch of an archiving call has succeeded, the payload is
\* in the archive before the decoder is called, and so whether or not the
\* decoding then succeeds; a call with the archive flag false, or of a
\* poller without an archive directory, archives nothing.
C15_ArchiveBeforeParse ==
    (poller.pc \in {"parse", "check", "done"} /\ poller.data # None) =>
        IF ArchivingEnabled
        THEN /\ archived = Append(poller.archived_before, poller.data[1])
             /\ \E name \in DOMAIN archive_files :
                    archive_files[name] = Gzip(poller.data[1])
        ELSE /\ archived = poller.archived_before
             /\ archive_files = poller.files_before

\* the payload of an archiving call is in the archive, the decoder has
\* not been called yet, and the payload cannot be decoded
C15_Witness ==
    /\ poller.pc = "parse"
    /\ ~poller.parsed
    /\ ArchivingEnabled
    /\ Undecodable(poller.data[1])
    /\ \E name \in DOMAIN archive_files : archive_files[name] = Gzip("truncated")

\* C16: every payload the poller archived is in a file of its own: after n
\* archived fetches the archive holds n files, and each archived payload
\* is the content of one of them.
C16_EachPayloadItsOwnFile ==
    /\ Cardinality(DOMAIN archive_files) = Len(archived)
    /\ \A i \in 1..Len(archived) :
        \E name \in DOMAIN archive_files : archive_files[name] = Gzip(archived[i])

====
